---- MODULE Spec2Model ----
(***************************************************************************)
(* Branch-visit reporting application: the visit-report lifecycle (owner   *)
(* create / edit / delete, reviewer approve / reject), the form validators *)
(* in front of the branch_visits table, and the aggregation functions of   *)
(* the report service.                                                     *)
(*                                                                         *)
(* The remote store is the table branch_visits.  Every user interface      *)
(* keeps its own copy of what it last loaded (the MyVisits list, the       *)
(* BHRDetailsModal report details); a copy is refreshed only by the        *)
(* handlers that reload it, so it may be older than the table.             *)
(*                                                                         *)
(* Optional numbers are sequences of length at most one: << >> is SQL      *)
(* null / JS null, <<n>> is the number n.  Optional strings use the        *)
(* sentinel Null.                                                          *)
(***************************************************************************)
EXTENDS Integers, Sequences, FiniteSets, TLC

VARIABLES
    branch_visits,      \* the table: visit id -> row, or NoRow
    visits,             \* MyVisits `visits` state of each owner session
    selectedEditVisit,  \* MyVisits `selectedEditVisit` of each owner session
    visitToDelete,      \* MyVisits `visitToDelete` of each owner session
    deleteDialogOpen,   \* MyVisits `deleteDialogOpen` of each owner session
    reportDetails,      \* BHRDetailsModal `reportDetails` of each reviewer
    lastOp,             \* the last handler that ran and what it sent to the store
    input,              \* the argument of the function under study (function specifications)
    output,             \* its results, by function name (function specifications)
    page                \* component state of the page under study (page specifications)

vars == << branch_visits, visits, selectedEditVisit, visitToDelete,
           deleteDialogOpen, reportDetails, lastOp, input, output, page >>

\* The variables of the function and page specifications; no handler of the
\* visit lifecycle touches them.
functionVars == << input, output, page >>

----------------------------------------------------------------------------
(* Bounds and value domains *)

\* Number of visit ids the table can hold in the lifecycle specification.
MaxVisits == 1

VisitIds == 1 .. MaxVisits

\* Browser sessions (tabs) of the owning representative.
Sessions == {"tab1", "tab2"}

\* Reviewers (zonal heads) with their own BHRDetailsModal.
Reviewers == {"zh1", "zh2"}

NoRow == [status |-> "none"]
NoId == 0
NoDetails == [id |-> NoId, status |-> "none"]
Null == "<null>"
NoNum == << >>
NoPage == << >>

Statuses == {"draft", "submitted", "approved", "rejected"}

PctFields == {"manning_percentage", "er_percentage"}
CountFields == {"total_employees_invited", "total_participants"}
QualFields == {"leaders_aligned_with_code"}
ContentFields == PctFields \cup CountFields \cup QualFields \cup {"visit_date", "feedback"}

\* Dates at day granularity.  Today is the day `new Date()` gives.
Today == 10

\* The five-point scale offered by the Select controls of the edit modal.
ScaleOptions == {"very_poor", "poor", "neutral", "good", "excellent"}
\* The values of the RadioGroup items of the radio-group edit modal.
RadioOptions == {"Yes", "No"}

Some(n) == << n >>
IsSome(o) == Len(o) = 1
Val(o) == o[1]

Row(st, branch, date, man, er, inv, par, qual, fb) ==
    [status |-> st,
     branch_id |-> branch,
     visit_date |-> date,
     manning_percentage |-> man,
     er_percentage |-> er,
     total_employees_invited |-> inv,
     total_participants |-> par,
     leaders_aligned_with_code |-> qual,
     feedback |-> fb]

Content(row) == [f \in ContentFields |-> row[f]]

----------------------------------------------------------------------------
(* JavaScript and zod helpers *)

\* `x || 0` on a number-or-null: null, undefined and 0 all give 0.
OrZero(o) == IF IsSome(o) /\ Val(o) # 0 THEN Val(o) ELSE 0

\* `s || ""` on a string-or-null.
OrEmpty(s) == IF s = Null THEN "" ELSE s

\* z.coerce.number(): Number(null) is 0, a number is itself.
CoerceNumber(o) == IF IsSome(o) THEN Val(o) ELSE 0

\* z.number().min(0).max(100) on an already coerced number.
PctInRange(n) == n >= 0 /\ n <= 100

\* Largest feedback text accepted by the new-visit form (characters).
FeedbackMax == 200

\* A stored feedback text is modelled by its length: << >> null, <<k>> a
\* text of k characters.
FeedbackOrNull(fb) == IF IsSome(fb) /\ Val(fb) # 0 THEN fb ELSE NoNum

----------------------------------------------------------------------------
(* New-visit form (react-hook-form + zod) *)

\* Values the form can hold: numbers typed through parseInt (the native
\* min/max attributes do not constrain typed input), the optional ER
\* percentage, and the qualitative defaults, which no control of the page
\* is bound to (the YesNoToggle components write component state only).
NewVisit_formValues(D) ==
    { Row("form", b, d, Some(m), er, Some(i), Some(p), "yes", Some(fb)) :
        b \in D.branch, d \in {Today} \cup D.date,
        m \in {0} \cup D.man, er \in {NoNum} \cup {Some(e) : e \in D.er},
        i \in {0} \cup D.inv, p \in {0} \cup D.par, fb \in {0} \cup D.fb }

NewVisit_formSchema(v) ==
    /\ PctInRange(Val(v.manning_percentage))
    /\ (IsSome(v.er_percentage) => PctInRange(Val(v.er_percentage)))
    /\ Val(v.total_employees_invited) >= 0
    /\ Val(v.total_participants) >= 0
    /\ v.leaders_aligned_with_code \in {"yes", "no"}
    /\ Val(v.feedback) <= FeedbackMax

\* visitData built by onSubmit.
NewVisit_onSubmit_visitData(v) ==
    Row("submitted",
        v.branch_id,
        v.visit_date,
        v.manning_percentage,
        Some(OrZero(v.er_percentage)),
        v.total_employees_invited,
        v.total_participants,
        v.leaders_aligned_with_code,
        FeedbackOrNull(v.feedback))

\* draftData with the status of a submitted report.
NewVisit_saveDraft_draftData_submitted(v) ==
    Row("submitted",
        v.branch_id,
        v.visit_date,
        v.manning_percentage,
        NoNum,
        v.total_employees_invited,
        v.total_participants,
        v.leaders_aligned_with_code,
        v.feedback)

\* draftData built by saveDraft: er_percentage is not part of the insert.
NewVisit_saveDraft_draftData(v) ==
    Row("draft",
        v.branch_id,
        v.visit_date,
        v.manning_percentage,
        NoNum,
        v.total_employees_invited,
        v.total_participants,
        v.leaders_aligned_with_code,
        v.feedback)

\* Older new-visit page: plain component state, numbers kept as text and
\* parsed on submit (an empty text gives null), qualitative answers taken
\* from the YesNoToggle state (null, true, false).
LegacyNewVisit_state(D) ==
    { Row("form", b, Today, m, er, i, p, q, Some(fb)) :
        b \in D.branch,
        m \in {NoNum} \cup {Some(x) : x \in D.man},
        er \in {NoNum} \cup {Some(x) : x \in D.er},
        i \in {NoNum} \cup {Some(x) : x \in D.inv},
        p \in {NoNum} \cup {Some(x) : x \in D.par},
        q \in {Null} \cup D.toggle, fb \in {0} \cup D.fb }

ToggleToText(t) == IF t = Null THEN Null ELSE IF t = "true" THEN "yes" ELSE "no"

LegacyNewVisit_handleSubmit_row(st) ==
    Row("draft",
        st.branch_id,
        st.visit_date,
        st.manning_percentage,
        st.er_percentage,
        st.total_employees_invited,
        st.total_participants,
        ToggleToText(st.leaders_aligned_with_code),
        st.feedback)

----------------------------------------------------------------------------
(* Edit modal, Select variant (components/branch/EditVisitModal.tsx) *)

\* form.reset(visitData): the stored values as they are, nulls included.
EditVisitModal_reset(row) == Content(row)

\* The dates the Calendar of the modal lets the user pick: any.
EditVisitModal_calendar(D) == D.date

\* What the user can leave a field at: the value put there by reset, or a
\* value the field's control produces.
EditVisitModal_formValues(row, D) ==
    LET r == EditVisitModal_reset(row) IN
    IF row = NoRow THEN {} ELSE
    { [visit_date |-> d, manning_percentage |-> m, er_percentage |-> e,
       total_employees_invited |-> i, total_participants |-> p,
       leaders_aligned_with_code |-> q, feedback |-> fb] :
        d \in {r.visit_date} \cup EditVisitModal_calendar(D),
        m \in {r.manning_percentage} \cup {Some(x) : x \in D.man},
        e \in {r.er_percentage} \cup {Some(x) : x \in D.er},
        i \in {r.total_employees_invited} \cup {Some(x) : x \in D.inv},
        p \in {r.total_participants} \cup {Some(x) : x \in D.par},
        q \in {r.leaders_aligned_with_code} \cup D.scale,
        fb \in {r.feedback} \cup {Some(x) : x \in D.fb} }

\* zodResolver(formSchema): z.coerce.number() takes null as 0,
\* z.string().optional() refuses null; total_employees_invited and
\* total_participants carry no min(0).
EditVisitModal_formSchema(v) ==
    /\ \A f \in PctFields : PctInRange(CoerceNumber(v[f]))
    /\ v.leaders_aligned_with_code # Null
    /\ v.feedback # NoNum

\* The parsed data handleSubmit hands to onSaveAsDraft / onSubmit.
EditVisitModal_parsed(v) ==
    [f \in ContentFields |->
        IF f \in PctFields \cup CountFields THEN Some(CoerceNumber(v[f])) ELSE v[f]]

----------------------------------------------------------------------------
(* Edit modal, RadioGroup variant (the second component of
   components/ui/yes-no-toggle.tsx) *)

\* form.reset with `|| 0` on numbers and `|| ""` on strings.
RadioEditVisitModal_reset(row) ==
    [f \in ContentFields |->
        IF f \in PctFields \cup CountFields THEN Some(OrZero(row[f]))
        ELSE IF f = "feedback" THEN Some(OrZero(row[f]))
        ELSE IF f = "visit_date" THEN row[f]
        ELSE OrEmpty(row[f])]

\* The Calendar of the modal disables the days after today.
RadioEditVisitModal_calendar(D) == { d \in D.date : ~(d > Today) }

RadioEditVisitModal_formValues(row, D) ==
    LET r == RadioEditVisitModal_reset(row) IN
    IF row = NoRow THEN {} ELSE
    { [visit_date |-> d, manning_percentage |-> m, er_percentage |-> e,
       total_employees_invited |-> i, total_participants |-> p,
       leaders_aligned_with_code |-> q, feedback |-> fb] :
        d \in {r.visit_date} \cup RadioEditVisitModal_calendar(D),
        m \in {r.manning_percentage} \cup {Some(x) : x \in D.man},
        e \in {r.er_percentage} \cup {Some(x) : x \in D.er},
        i \in {r.total_employees_invited} \cup {Some(x) : x \in D.inv},
        p \in {r.total_participants} \cup {Some(x) : x \in D.par},
        q \in {r.leaders_aligned_with_code} \cup D.radio,
        fb \in {r.feedback} \cup {Some(x) : x \in D.fb} }

RadioEditVisitModal_formSchema(v) ==
    /\ \A f \in PctFields : PctInRange(CoerceNumber(v[f]))
    /\ \A f \in CountFields : CoerceNumber(v[f]) >= 0

\* form.formState.isValid as read by the Submit Report button: the result
\* of the resolver on the values the form holds.
RadioEditVisitModal_isValid(v) == RadioEditVisitModal_formSchema(v)

----------------------------------------------------------------------------
(* The branch_visits table *)

\* insert: the row takes the first unused id.
FreeIds == { i \in VisitIds : branch_visits[i] = NoRow }
NextId == CHOOSE i \in FreeIds : \A j \in FreeIds : i <= j

\* update({...data, status}).eq("id", id): all matching rows, none if the
\* id is gone.
UpdateRow(t, id, data, st) ==
    IF t[id] = NoRow THEN t
    ELSE [t EXCEPT ![id] =
            [f \in DOMAIN t[id] |->
                IF f = "status" THEN st
                ELSE IF f \in DOMAIN data THEN data[f] ELSE t[id][f]]]

\* The update that also clears the manning percentage of the row.
updateReportStatus_clearsManning(t, reportId, st) ==
    IF t[reportId] = NoRow THEN t
    ELSE [t EXCEPT ![reportId].status = st, ![reportId].manning_percentage = << >>]

\* The update limited to a row that is still submitted.
updateReportStatus_ifSubmitted(t, reportId, st) ==
    IF t[reportId] = NoRow \/ t[reportId].status # "submitted" THEN t
    ELSE [t EXCEPT ![reportId].status = st]

\* update({ status }).eq("id", reportId)
updateReportStatus(t, reportId, st) ==
    IF t[reportId] = NoRow THEN t
    ELSE [t EXCEPT ![reportId].status = st]

\* delete().eq("id", id)
DeleteRow(t, id) == [t EXCEPT ![id] = NoRow]

\* What a handler did: the request it sent (if any), whether the store
\* failed it, the toast it ended with, and whether the store's rejection
\* left the handler uncaught (tryCatch: the request sits in a try block
\* whose catch shows a destructive toast).
Op(name, id, carried, issued, failed, tryCatch) ==
    [op |-> name, id |-> id, carried |-> carried, issued |-> issued, failed |-> failed,
     toast |-> IF ~issued THEN "none"
               ELSE IF ~failed THEN "success"
               ELSE IF tryCatch THEN "error" ELSE "none",
     unhandled |-> issued /\ failed /\ ~tryCatch]

NoCarried == [status |-> "none"]

\* lastOp is a history variable: it is written where the handlers are
\* followed (h), and left alone otherwise.
Record(h, name, id, carried, issued, failed, tryCatch) ==
    IF h THEN Op(name, id, carried, issued, failed, tryCatch) ELSE lastOp

----------------------------------------------------------------------------
(* Initial state: an empty table, nothing loaded anywhere. *)

\* The application before anything was created or loaded.
NothingLoaded ==
    /\ branch_visits = [i \in VisitIds |-> NoRow]
    /\ visits = [s \in Sessions |-> [i \in VisitIds |-> NoRow]]
    /\ selectedEditVisit = [s \in Sessions |-> NoId]
    /\ visitToDelete = [s \in Sessions |-> NoId]
    /\ deleteDialogOpen = [s \in Sessions |-> FALSE]
    /\ reportDetails = [r \in Reviewers |-> NoDetails]
    /\ lastOp = Op("none", NoId, NoCarried, FALSE, FALSE, TRUE)

Init ==
    /\ NothingLoaded
    /\ page = NoPage
    /\ input = << >>
    /\ output = << >>

ownerViews == << visits, selectedEditVisit, visitToDelete, deleteDialogOpen >>

----------------------------------------------------------------------------
(* Creating a visit *)

\* createBranchVisit(visitData) of services/branchService: one insert of
\* the record it is given.
createBranchVisit(t, row) == [t EXCEPT ![NextId] = row]

\* NewVisit.onSubmit, reached through form.handleSubmit (so only with
\* values the schema accepts).
NewVisit_onSubmit(v, fails, h) ==
    /\ FreeIds # {}
    /\ IF ~NewVisit_formSchema(v)
         THEN /\ lastOp' = Record(h, "NewVisit.onSubmit", NoId, v, FALSE, FALSE, TRUE)
              /\ UNCHANGED branch_visits
         ELSE /\ lastOp' = Record(h, "NewVisit.onSubmit", NextId, v, TRUE, fails, TRUE)
              /\ branch_visits' =
                    IF fails THEN branch_visits
                    ELSE createBranchVisit(branch_visits, NewVisit_onSubmit_visitData(v))
    /\ UNCHANGED << ownerViews, reportDetails >>
    /\ UNCHANGED functionVars

\* NewVisit.saveDraft: form.getValues(), no resolver in between; it
\* returns after a toast when no branch is selected.
NewVisit_saveDraft(v, fails, h) ==
    /\ FreeIds # {}
    /\ IF v.branch_id = ""
         THEN /\ lastOp' = Record(h, "NewVisit.saveDraft", NoId, v, FALSE, FALSE, TRUE)
              /\ UNCHANGED branch_visits
         ELSE /\ lastOp' = Record(h, "NewVisit.saveDraft", NextId, v, TRUE, fails, TRUE)
              /\ branch_visits' =
                    IF fails THEN branch_visits
                    ELSE createBranchVisit(branch_visits, NewVisit_saveDraft_draftData(v))
    /\ UNCHANGED << ownerViews, reportDetails >>
    /\ UNCHANGED functionVars

\* handleSubmit of the older new-visit page: a direct insert.
LegacyNewVisit_handleSubmit(st, fails, h) ==
    /\ FreeIds # {}
    /\ lastOp' = Record(h, "LegacyNewVisit.handleSubmit", NextId, st, TRUE, fails, TRUE)
    /\ branch_visits' =
          IF fails THEN branch_visits
          ELSE [branch_visits EXCEPT ![NextId] = LegacyNewVisit_handleSubmit_row(st)]
    /\ UNCHANGED << ownerViews, reportDetails >>
    /\ UNCHANGED functionVars

----------------------------------------------------------------------------
(* MyVisits of an owner session *)

\* Mounting the page (first load or reload): every piece of component
\* state starts from its initial value and fetchVisits loads the current
\* rows of the user.  (On a failed fetch the list stays empty.)
MyVisits_fetchVisits(s) ==
    /\ visits' = [visits EXCEPT ![s] = branch_visits]
    /\ selectedEditVisit' = [selectedEditVisit EXCEPT ![s] = NoId]
    /\ visitToDelete' = [visitToDelete EXCEPT ![s] = NoId]
    /\ deleteDialogOpen' = [deleteDialogOpen EXCEPT ![s] = FALSE]
    /\ UNCHANGED << branch_visits, reportDetails, lastOp >>
    /\ UNCHANGED functionVars

\* The Edit button is rendered for rows the list shows as draft.
MyVisits_handleEditVisit(s, id) ==
    /\ visits[s][id] # NoRow
    /\ visits[s][id].status = "draft"
    /\ selectedEditVisit[s] = NoId
    /\ ~deleteDialogOpen[s]
    /\ selectedEditVisit' = [selectedEditVisit EXCEPT ![s] = id]
    /\ UNCHANGED << branch_visits, visits, visitToDelete, deleteDialogOpen,
                    reportDetails, lastOp >>
    /\ UNCHANGED functionVars

\* onClose of the edit modal (Cancel).
EditVisitModal_onClose(s) ==
    /\ selectedEditVisit[s] # NoId
    /\ selectedEditVisit' = [selectedEditVisit EXCEPT ![s] = NoId]
    /\ UNCHANGED << branch_visits, visits, visitToDelete, deleteDialogOpen,
                    reportDetails, lastOp >>
    /\ UNCHANGED functionVars

\* The Delete button is rendered for rows the list shows as draft.
MyVisits_handleDeleteVisit(s, id) ==
    /\ visits[s][id] # NoRow
    /\ visits[s][id].status = "draft"
    /\ selectedEditVisit[s] = NoId
    /\ ~deleteDialogOpen[s]
    /\ visitToDelete' = [visitToDelete EXCEPT ![s] = id]
    /\ deleteDialogOpen' = [deleteDialogOpen EXCEPT ![s] = TRUE]
    /\ UNCHANGED << branch_visits, visits, selectedEditVisit, reportDetails, lastOp >>
    /\ UNCHANGED functionVars

\* AlertDialogCancel: closes the dialog, visitToDelete is kept.
MyVisits_cancelDelete(s) ==
    /\ deleteDialogOpen[s]
    /\ deleteDialogOpen' = [deleteDialogOpen EXCEPT ![s] = FALSE]
    /\ UNCHANGED << branch_visits, visits, selectedEditVisit, visitToDelete,
                    reportDetails, lastOp >>
    /\ UNCHANGED functionVars

\* confirmDeleteVisit: delete by id, whatever the row's status now is.
confirmDeleteVisit_store(t, id) == DeleteRow(t, id)

MyVisits_confirmDeleteVisit(s, fails, h) ==
    LET id == visitToDelete[s] IN
    /\ deleteDialogOpen[s]
    /\ id # NoId
    /\ lastOp' = Record(h, "MyVisits.confirmDeleteVisit", id, NoCarried, TRUE, fails, TRUE)
    /\ branch_visits' = IF fails THEN branch_visits
                        ELSE confirmDeleteVisit_store(branch_visits, id)
    /\ visits' = IF fails THEN visits
                 ELSE [visits EXCEPT ![s][id] = NoRow]
    /\ visitToDelete' = [visitToDelete EXCEPT ![s] = NoId]
    /\ deleteDialogOpen' = [deleteDialogOpen EXCEPT ![s] = FALSE]
    /\ UNCHANGED << selectedEditVisit, reportDetails >>
    /\ UNCHANGED functionVars

----------------------------------------------------------------------------
(* Saving from the edit modal *)

\* The update payload of both modals: {...data, status, updated_at: new
\* Date().toISOString()}.
WithStatus(v, st) ==
    [f \in DOMAIN v \cup {"status", "updated_at"} |->
        IF f = "status" THEN st ELSE IF f = "updated_at" THEN "now" ELSE v[f]]

\* updateVisit(status, data) of the Select variant, reached through
\* form.handleSubmit(onSaveAsDraft) or form.handleSubmit(onSubmit).  The
\* update is keyed by the id of the visit the modal was opened with; the
\* row's current status is not read.  On success onUpdateSuccess reloads the
\* list and onClose closes the modal.
EditVisitModal_updateVisit(s, st, v, fails, h) ==
    LET id == selectedEditVisit[s] IN
    /\ id # NoId
    /\ IF ~EditVisitModal_formSchema(v)
         THEN /\ lastOp' = Record(h, "EditVisitModal.updateVisit", id, WithStatus(v, st), FALSE, FALSE, TRUE)
              /\ UNCHANGED << branch_visits, visits, selectedEditVisit >>
         ELSE /\ lastOp' = Record(h, "EditVisitModal.updateVisit", id, WithStatus(v, st), TRUE, fails, TRUE)
              /\ branch_visits' =
                    IF fails THEN branch_visits
                    ELSE UpdateRow(branch_visits, id, EditVisitModal_parsed(v), st)
              /\ visits' = IF fails THEN visits
                           ELSE [visits EXCEPT ![s] = branch_visits']
              /\ selectedEditVisit' =
                    IF fails THEN selectedEditVisit
                    ELSE [selectedEditVisit EXCEPT ![s] = NoId]
    /\ UNCHANGED << visitToDelete, deleteDialogOpen, reportDetails >>
    /\ UNCHANGED functionVars

\* onSubmit(data, status) of the RadioGroup variant: "draft" through
\* form.handleSubmit, "submitted" through the Submit Report button, which
\* reads form.formState.isValid and then form.getValues().
RadioEditVisitModal_onSubmit(s, st, v, fails, h) ==
    LET id == selectedEditVisit[s]
        accepted == IF st = "draft" THEN RadioEditVisitModal_formSchema(v)
                    ELSE RadioEditVisitModal_isValid(v)
    IN
    /\ id # NoId
    /\ IF ~accepted
         THEN /\ lastOp' = Record(h, "RadioEditVisitModal.onSubmit", id, WithStatus(v, st), FALSE, FALSE, TRUE)
              /\ UNCHANGED << branch_visits, visits, selectedEditVisit >>
         ELSE /\ lastOp' = Record(h, "RadioEditVisitModal.onSubmit", id, WithStatus(v, st), TRUE, fails, TRUE)
              /\ branch_visits' =
                    IF fails THEN branch_visits
                    ELSE UpdateRow(branch_visits, id, v, st)
              /\ visits' = IF fails THEN visits
                           ELSE [visits EXCEPT ![s] = branch_visits']
              /\ selectedEditVisit' =
                    IF fails THEN selectedEditVisit
                    ELSE [selectedEditVisit EXCEPT ![s] = NoId]
    /\ UNCHANGED << visitToDelete, deleteDialogOpen, reportDetails >>
    /\ UNCHANGED functionVars

----------------------------------------------------------------------------
(* Reviewer: BHRDetailsModal *)

\* Selecting a report of the list runs the report-details query.
BHRDetailsModal_selectReport(r, id) ==
    /\ branch_visits[id] # NoRow
    /\ reportDetails' = [reportDetails EXCEPT
                            ![r] = [id |-> id, status |-> branch_visits[id].status]]
    /\ UNCHANGED << branch_visits, ownerViews, lastOp >>
    /\ UNCHANGED functionVars

\* Closing the details dialog: setSelectedReportId(null).
BHRDetailsModal_closeReport(r) ==
    /\ reportDetails[r] # NoDetails
    /\ reportDetails' = [reportDetails EXCEPT ![r] = NoDetails]
    /\ UNCHANGED << branch_visits, ownerViews, lastOp >>
    /\ UNCHANGED functionVars

\* handleStatusUpdate(reportDetails.id, status): the Approve and Reject
\* buttons are rendered while the loaded details say "submitted".  A store
\* error rejects the awaited call, so nothing after it runs.
BHRDetailsModal_handleStatusUpdate(r, st, fails, h) ==
    LET id == reportDetails[r].id IN
    /\ reportDetails[r] # NoDetails
    /\ reportDetails[r].status = "submitted"
    /\ lastOp' = Record(h, "BHRDetailsModal.handleStatusUpdate", id, [status |-> st], TRUE, fails, FALSE)
    /\ branch_visits' = IF fails THEN branch_visits
                        ELSE updateReportStatus(branch_visits, id, st)
    /\ reportDetails' = IF fails THEN reportDetails
                        ELSE [reportDetails EXCEPT ![r] = NoDetails]
    /\ UNCHANGED ownerViews
    /\ UNCHANGED functionVars

----------------------------------------------------------------------------
(* Lifecycle specification *)

\* What the users type and pick in the lifecycle specification.
LifecycleInputs ==
    [branch |-> {"b1"}, date |-> {}, man |-> {}, er |-> {}, inv |-> {}, par |-> {},
     scale |-> {"good"}, radio |-> {"Yes"}, toggle |-> {}, fb |-> {}]

Create(D, h) ==
    \E fails \in BOOLEAN :
        \/ \E v \in NewVisit_formValues(D) : NewVisit_onSubmit(v, fails, h)
        \/ \E v \in NewVisit_formValues(D) : NewVisit_saveDraft(v, fails, h)
        \/ \E st \in LegacyNewVisit_state(D) : LegacyNewVisit_handleSubmit(st, fails, h)

OwnerBrowse(S) ==
    \E s \in S :
        \/ MyVisits_fetchVisits(s)
        \/ \E id \in VisitIds : MyVisits_handleEditVisit(s, id)
        \/ EditVisitModal_onClose(s)
        \/ \E id \in VisitIds : MyVisits_handleDeleteVisit(s, id)
        \/ MyVisits_cancelDelete(s)

\* visitData of the edit modal: the list entry the modal was opened with.
visitData(s) ==
    IF selectedEditVisit[s] = NoId THEN NoRow ELSE visits[s][selectedEditVisit[s]]

OwnerEdit(S, D, h) ==
    \E s \in S, st \in {"draft", "submitted"}, fails \in BOOLEAN :
        \/ \E v \in EditVisitModal_formValues(visitData(s), D) :
              EditVisitModal_updateVisit(s, st, v, fails, h)
        \/ \E v \in RadioEditVisitModal_formValues(visitData(s), D) :
              RadioEditVisitModal_onSubmit(s, st, v, fails, h)

OwnerDelete(S, h) ==
    \E s \in S, fails \in BOOLEAN : MyVisits_confirmDeleteVisit(s, fails, h)

Review(h) ==
    \E r \in Reviewers :
        \/ \E id \in VisitIds : BHRDetailsModal_selectReport(r, id)
        \/ BHRDetailsModal_closeReport(r)
        \/ \E st \in {"approved", "rejected"}, fails \in BOOLEAN :
              BHRDetailsModal_handleStatusUpdate(r, st, fails, h)

Next ==
    \/ Create(LifecycleInputs, FALSE)
    \/ OwnerBrowse(Sessions)
    \/ OwnerEdit(Sessions, LifecycleInputs, FALSE)
    \/ OwnerDelete(Sessions, FALSE)
    \/ Review(FALSE)

Spec == Init /\ [][Next]_vars

----------------------------------------------------------------------------
(* Form specification: one owner session in front of the table, every
   handler followed in lastOp, and inputs that include the values the
   validators are there to stop. *)

FormInputs ==
    [branch |-> {"b1"}, date |-> {}, man |-> {-5, 150}, er |-> {150}, inv |-> {-2}, par |-> {},
     scale |-> {"good"}, radio |-> {"No"}, toggle |-> {"true", "false"}, fb |-> {}]

FormSessions == {"tab1"}

NextForms ==
    \/ Create(FormInputs, TRUE)
    \/ OwnerBrowse(FormSessions)
    \/ OwnerEdit(FormSessions, FormInputs, TRUE)
    \/ OwnerDelete(FormSessions, TRUE)

SpecForms == Init /\ [][NextForms]_vars

----------------------------------------------------------------------------
(* Failure specification: one owner session and the reviewers in front of
   the table, every handler followed in lastOp, the store free to fail any
   request. *)

NextFailures ==
    \/ Create(LifecycleInputs, TRUE)
    \/ OwnerBrowse(FormSessions)
    \/ OwnerEdit(FormSessions, LifecycleInputs, TRUE)
    \/ OwnerDelete(FormSessions, TRUE)
    \/ Review(TRUE)

SpecFailures == Init /\ [][NextFailures]_vars

\* The creation and editing forms with the branch left unselected or
\* selected, and a day after today picked where the Calendar offers it.
RequiredInputs ==
    [branch |-> {"", "b1"}, date |-> {Today + 1}, man |-> {50}, er |-> {}, inv |-> {}, par |-> {},
     scale |-> {"good"}, radio |-> {"Yes"}, toggle |-> {}, fb |-> {}]

NextRequired ==
    \/ Create(RequiredInputs, TRUE)
    \/ OwnerBrowse(FormSessions)
    \/ OwnerEdit(FormSessions, RequiredInputs, TRUE)
    \/ OwnerDelete(FormSessions, TRUE)

SpecRequired == Init /\ [][NextRequired]_vars

----------------------------------------------------------------------------
(* Functions of the report service and the coverage computations.  Each
   function has a specification of its own: the initial state draws the
   argument, the actions apply the function and keep the result. *)

lifecycleVars == << branch_visits, visits, selectedEditVisit, visitToDelete,
                    deleteDialogOpen, reportDetails, lastOp >>

Pending == [done |-> FALSE, value |-> << >>]
Done(v) == [done |-> TRUE, value |-> v]

\* The results once the function `name` has returned `result`.
Returned(name, result) == [output EXCEPT ![name] = Done(result)]

\* Math.round(num / den) for den > 0: the nearest integer, halves upwards.
Round(num, den) == (2 * num + den) \div (2 * den)

\* Math.round(num / den) for any den # 0.
RoundDiv(num, den) == IF den > 0 THEN Round(num, den) ELSE Round(-num, -den)

\* JS truthiness of a string-or-null.
Truthy(s) == s # Null /\ s # ""

\* String.prototype.toLowerCase on the strings that occur.
ToLowerCase(s) ==
    CASE s = "Yes" -> "yes"
      [] s = "YES" -> "yes"
      [] s = "No" -> "no"
      [] s = "NO" -> "no"
      [] OTHER -> s

----------------------------------------------------------------------------
(* Coverage percentage *)

\* NewVisit.calculateCoverage as rendered: `{calculateCoverage()}%`.  A
\* null operand of `>` or `/` is 0.
NewVisit_calculateCoverage(invited, participants) ==
    IF CoerceNumber(invited) > 0
      THEN RoundDiv(CoerceNumber(participants) * 100, CoerceNumber(invited))
      ELSE 0

\* MyVisits.calculateCoverage: the test is `invited === 0`.
MyVisits_calculateCoverage(invited, participants) ==
    IF OrZero(invited) = 0 THEN "0%"
    ELSE ToString(RoundDiv(OrZero(participants) * 100, OrZero(invited))) \o "%"

\* The inline computation of the radio-group edit modal, followed by `%`.
EditVisitModal_coverage(invited, participants) ==
    IF CoerceNumber(invited) > 0
      THEN RoundDiv(CoerceNumber(participants) * 100, CoerceNumber(invited))
      ELSE 0

\* JSX `{n}%`.
PercentText(n) == ToString(n) \o "%"

\* Largest count drawn in the coverage specification.
MaxCount == 6

\* The counts of the worked example (40 participants of 50 invited).
SampleCounts == {40, 50}

InvitedValues == {NoNum} \cup { Some(n) : n \in ((-MaxCount) .. MaxCount) \cup SampleCounts }
ParticipantValues == {NoNum} \cup { Some(n) : n \in (0 .. MaxCount) \cup SampleCounts }

CoverageNames == {"NewVisit", "MyVisits", "EditVisitModal"}

InitCoverage ==
    /\ NothingLoaded
    /\ page = NoPage
    /\ input \in [invited : InvitedValues, participants : ParticipantValues]
    /\ output = [n \in CoverageNames |-> Pending]

NewVisit_showCoverage ==
    /\ ~output["NewVisit"].done
    /\ output' = Returned("NewVisit",
            PercentText(NewVisit_calculateCoverage(input.invited, input.participants)))
    /\ UNCHANGED << input, page, lifecycleVars >>

MyVisits_showCoverage ==
    /\ ~output["MyVisits"].done
    /\ output' = Returned("MyVisits",
            MyVisits_calculateCoverage(input.invited, input.participants))
    /\ UNCHANGED << input, page, lifecycleVars >>

EditVisitModal_showCoverage ==
    /\ ~output["EditVisitModal"].done
    /\ output' = Returned("EditVisitModal",
            PercentText(EditVisitModal_coverage(input.invited, input.participants)))
    /\ UNCHANGED << input, page, lifecycleVars >>

NextCoverage ==
    \/ NewVisit_showCoverage
    \/ MyVisits_showCoverage
    \/ EditVisitModal_showCoverage

SpecCoverage == InitCoverage /\ [][NextCoverage]_vars

----------------------------------------------------------------------------
(* The qualitative answers written by the two new-visit pages *)

\* The state of the YesNoToggle of a question: null until it is clicked,
\* then true or false.
YesNoToggle_values == {Null, "true", "false"}

AnswerInputs ==
    [branch |-> {"b1"}, date |-> {}, man |-> {50}, er |-> {}, inv |-> {}, par |-> {},
     scale |-> {}, radio |-> {}, toggle |-> {"true", "false"}, fb |-> {}]

AnswerNames == {"NewVisit.onSubmit", "NewVisit.saveDraft", "LegacyNewVisit.handleSubmit"}

\* The new-visit page holds the form values and, apart from them, the
\* toggle state; the older page holds its toggle state among its fields.
InitAnswers ==
    /\ NothingLoaded
    /\ page = NoPage
    /\ input \in [form : NewVisit_formValues(AnswerInputs),
                   leadersAlignedWithCode : YesNoToggle_values,
                   legacy : LegacyNewVisit_state(AnswerInputs)]
    /\ output = [n \in AnswerNames |-> Pending]

NewVisit_onSubmit_persisted ==
    /\ ~output["NewVisit.onSubmit"].done
    /\ NewVisit_formSchema(input.form)
    /\ output' = Returned("NewVisit.onSubmit", NewVisit_onSubmit_visitData(input.form))
    /\ UNCHANGED << input, page, lifecycleVars >>

NewVisit_saveDraft_persisted ==
    /\ ~output["NewVisit.saveDraft"].done
    /\ input.form.branch_id # ""
    /\ output' = Returned("NewVisit.saveDraft", NewVisit_saveDraft_draftData(input.form))
    /\ UNCHANGED << input, page, lifecycleVars >>

LegacyNewVisit_handleSubmit_persisted ==
    /\ ~output["LegacyNewVisit.handleSubmit"].done
    /\ output' = Returned("LegacyNewVisit.handleSubmit",
                          LegacyNewVisit_handleSubmit_row(input.legacy))
    /\ UNCHANGED << input, page, lifecycleVars >>

NextAnswers ==
    \/ NewVisit_onSubmit_persisted
    \/ NewVisit_saveDraft_persisted
    \/ LegacyNewVisit_handleSubmit_persisted

SpecAnswers == InitAnswers /\ [][NextAnswers]_vars

----------------------------------------------------------------------------
(* getQualitativeMetricsForHeatmap *)

metrics ==
    << "leaders_aligned_with_code", "employees_feel_safe", "employees_feel_motivated",
       "leaders_abusive_language", "employees_comfort_escalation", "inclusive_culture" >>

Metric == { metrics[k] : k \in DOMAIN metrics }

\* The select without the status filter.
Heatmap_query_anyStatus(rows, dateRange) ==
    SelectSeq(rows,
        LAMBDA r :
            IsSome(dateRange.from) =>
                /\ r.visit_date >= Val(dateRange.from)
                /\ IsSome(dateRange.to) => r.visit_date <= Val(dateRange.to))

\* The select with .eq("status", "approved") and, if dateRange.from is set,
\* .gte("visit_date", from) and, if dateRange.to is set as well,
\* .lte("visit_date", to).  Dates are day numbers.
Heatmap_query(rows, dateRange) ==
    SelectSeq(rows,
        LAMBDA r :
            /\ r.status = "approved"
            /\ IsSome(dateRange.from) =>
                  /\ r.visit_date >= Val(dateRange.from)
                  /\ IsSome(dateRange.to) => r.visit_date <= Val(dateRange.to))

\* filteredData: the rows of the category asked for, all rows if none is.
Heatmap_filteredData(data, branchCategory) ==
    IF Truthy(branchCategory)
      THEN SelectSeq(data, LAMBDA r : r.branches # Null /\ r.branches = branchCategory)
      ELSE data

\* The body of filteredData.forEach for one item and one metric.
Heatmap_count(metricData, value) ==
    IF Truthy(value)
      THEN [metricData EXCEPT
              !.yes = IF ToLowerCase(value) = "yes" THEN @ + 1 ELSE @,
              !.no = IF ToLowerCase(value) # "yes" /\ ToLowerCase(value) = "no"
                       THEN @ + 1 ELSE @,
              !.total = @ + 1]
      ELSE metricData

RECURSIVE Heatmap_forEach(_, _)
Heatmap_forEach(heatmapData, items) ==
    IF items = << >> THEN heatmapData
    ELSE Heatmap_forEach(
            [k \in DOMAIN heatmapData |->
                Heatmap_count(heatmapData[k], Head(items).answers[heatmapData[k].metric])],
            Tail(items))

getQualitativeMetricsForHeatmap(rows, dateRange, branchCategory) ==
    Heatmap_forEach(
        [k \in DOMAIN metrics |-> [metric |-> metrics[k], yes |-> 0, no |-> 0, total |-> 0]],
        Heatmap_filteredData(Heatmap_query(rows, dateRange), branchCategory))

\* The five-point variant of services/reportService.ts: a counter per scale
\* value; `metricData[value] = metricData[value] + 1` on any other value
\* leaves NaN under that key (kept in `nan`).
ScaleHeatmap_count(metricData, value) ==
    IF Truthy(value)
      THEN IF value \in ScaleOptions
             THEN [metricData EXCEPT ![value] = @ + 1, !.total = @ + 1]
             ELSE [metricData EXCEPT !.nan = @ \cup {value}, !.total = @ + 1]
      ELSE metricData

RECURSIVE ScaleHeatmap_forEach(_, _)
ScaleHeatmap_forEach(heatmapData, items) ==
    IF items = << >> THEN heatmapData
    ELSE ScaleHeatmap_forEach(
            [k \in DOMAIN heatmapData |->
                ScaleHeatmap_count(heatmapData[k],
                                   Head(items).answers[heatmapData[k].metric])],
            Tail(items))

ScaleHeatmap_getQualitativeMetricsForHeatmap(rows, dateRange, branchCategory) ==
    ScaleHeatmap_forEach(
        [k \in DOMAIN metrics |->
            [metric |-> metrics[k], very_poor |-> 0, poor |-> 0, neutral |-> 0,
             good |-> 0, excellent |-> 0, total |-> 0, nan |-> {}]],
        Heatmap_filteredData(Heatmap_query(rows, dateRange), branchCategory))

\* Most visits in the table of a function specification.
MaxRows == 2

\* Values found in a qualitative column: unset, the empty text and "No"
\* of the radio-group modal, "yes" of the new-visit form, "good" of the
\* Select modal.
StoredAnswers == {Null, "", "yes", "No", "good"}

\* Rows differ in the first metric and, together, in the other five.
HeatmapRows ==
    { [status |-> st, visit_date |-> d, branches |-> c,
       answers |-> [m \in Metric |-> IF m = metrics[1] THEN a ELSE b]] :
        st \in Statuses, d \in {1, 2}, c \in {"gold", "silver"},
        a \in StoredAnswers, b \in {Null, "no"} }

SeqsUpTo(S, n) == UNION { [1 .. k -> S] : k \in 0 .. n }

HeatmapRanges ==
    { [from |-> NoNum, to |-> NoNum], [from |-> Some(2), to |-> NoNum],
      [from |-> Some(1), to |-> Some(1)] }

HeatmapNames == {"yesno", "scale", "table"}

InitHeatmap ==
    /\ NothingLoaded
    /\ page = NoPage
    /\ input \in [rows : SeqsUpTo(HeatmapRows, MaxRows),
                  dateRange : HeatmapRanges,
                  branchCategory : {Null, "gold"}]
    /\ output = [n \in HeatmapNames |-> Pending]

Heatmap_call ==
    /\ ~output["yesno"].done
    /\ output' = Returned("yesno",
            getQualitativeMetricsForHeatmap(input.rows, input.dateRange,
                                            input.branchCategory))
    /\ UNCHANGED << input, page, lifecycleVars >>

ScaleHeatmap_call ==
    /\ ~output["scale"].done
    /\ output' = Returned("scale",
            ScaleHeatmap_getQualitativeMetricsForHeatmap(input.rows, input.dateRange,
                                                         input.branchCategory))
    /\ UNCHANGED << input, page, lifecycleVars >>

\* The cell with a dash in place of the share when the row has no
\* responses.
QualitativeHeatmap_cell_dash(row, response) ==
    LET count == row[ToLowerCase(response)]
        total == row.total
    IN  [count |-> count,
         text |-> IF total > 0 THEN ToString(Round(count * 100, total)) \o "%" ELSE "-"]

\* A cell of the QualitativeHeatmap table: the count of the response and
\* its share of the row's total as text.
QualitativeHeatmap_cell(row, response) ==
    LET count == row[ToLowerCase(response)]
        total == row.total
    IN  [count |-> count,
         text |-> IF total > 0 THEN ToString(Round(count * 100, total)) \o "%" ELSE "0%"]

\* The table body rendered from the data the service returned: a line per
\* row, in the order of the rows, with a Yes and a No cell.
QualitativeHeatmap_render ==
    /\ output["yesno"].done
    /\ ~output["table"].done
    /\ output' = Returned("table",
            [k \in DOMAIN output["yesno"].value |->
                [metric |-> output["yesno"].value[k].metric,
                 Yes |-> QualitativeHeatmap_cell(output["yesno"].value[k], "Yes"),
                 No |-> QualitativeHeatmap_cell(output["yesno"].value[k], "No")]])
    /\ UNCHANGED << input, page, lifecycleVars >>

NextHeatmap ==
    \/ Heatmap_call
    \/ ScaleHeatmap_call
    \/ QualitativeHeatmap_render

SpecHeatmap == InitHeatmap /\ [][NextHeatmap]_vars

----------------------------------------------------------------------------
(* fetchCategoryStatsByMonth *)

\* Dates are << year, month, day >>, compared in that order.
DateLE(a, b) ==
    \/ a[1] < b[1]
    \/ a[1] = b[1] /\ a[2] < b[2]
    \/ a[1] = b[1] /\ a[2] = b[2] /\ a[3] <= b[3]

IsLeapYear(y) == (y % 4 = 0 /\ y % 100 # 0) \/ y % 400 = 0

\* new Date(year, month, 0): the last day of the month `month` (1..12).
LastDayOfMonth(y, m) ==
    IF m = 2 THEN (IF IsLeapYear(y) THEN 29 ELSE 28)
    ELSE IF m \in {4, 6, 9, 11} THEN 30 ELSE 31

\* `category || 'Uncategorized'`
CategoryOrUncategorized(c) == IF Truthy(c) THEN c ELSE "Uncategorized"

\* The visits query limited to approved visits.
CategoryStats_query_approved(rows, year, month) ==
    SelectSeq(rows,
        LAMBDA r :
            /\ DateLE(<< year, month, 1 >>, r.visit_date)
            /\ DateLE(r.visit_date, << year, month, LastDayOfMonth(year, month) >>)
            /\ r.status \in {"approved"})

\* The visits query: the month's first to last day, status submitted or
\* approved.
CategoryStats_query(rows, year, month) ==
    SelectSeq(rows,
        LAMBDA r :
            /\ DateLE(<< year, month, 1 >>, r.visit_date)
            /\ DateLE(r.visit_date, << year, month, LastDayOfMonth(year, month) >>)
            /\ r.status \in {"submitted", "approved"})

\* branches.reduce(...): the number of live branches of category `name`.
branchCounts(branches, name) ==
    Cardinality({ k \in DOMAIN branches : CategoryOrUncategorized(branches[k]) = name })

\* data.forEach(...): `stats` as the list of its entries in insertion
\* order, which is the order Object.entries returns them in.
RECURSIVE CategoryStats_forEach(_, _)
CategoryStats_forEach(stats, data) ==
    IF data = << >> THEN stats
    ELSE LET row == Head(data)
             cat == CategoryOrUncategorized(row.branch_category)
             known == \E k \in DOMAIN stats : stats[k].name = cat
             started == IF known THEN stats
                        ELSE Append(stats, [name |-> cat, visits |-> 0,
                                            manningSum |-> 0, attritionSum |-> 0])
         IN  CategoryStats_forEach(
                [k \in DOMAIN started |->
                    IF started[k].name = cat
                      THEN [started[k] EXCEPT
                              !.visits = @ + 1,
                              !.manningSum = @ + OrZero(row.manning_percentage),
                              !.attritionSum = @ + OrZero(row.attrition_percentage)]
                      ELSE started[k]],
                Tail(data))

fetchCategoryStatsByMonth(rows, branches, year, month) ==
    LET stats == CategoryStats_forEach(<< >>, CategoryStats_query(rows, year, month)) IN
    [k \in DOMAIN stats |->
        [name |-> stats[k].name,
         visits |-> stats[k].visits,
         avgManning |-> IF stats[k].visits # 0
                          THEN Round(stats[k].manningSum, stats[k].visits) ELSE 0,
         avgAttrition |-> IF stats[k].visits # 0
                            THEN Round(stats[k].attritionSum, stats[k].visits) ELSE 0,
         branchCount |-> branchCounts(branches, stats[k].name)]]

\* Most branches in the live branches table of the specification.
MaxBranches == 2

Categories == {Null, "gold", "silver"}

CategoryStatsRows ==
    { [status |-> st, visit_date |-> d, branch_category |-> c,
       manning_percentage |-> m, attrition_percentage |-> Some(10)] :
        st \in Statuses,
        d \in { << 2025, 2, 28 >>, << 2025, 3, 1 >> },
        c \in Categories,
        m \in {NoNum, Some(75), Some(80)} }

InitCategoryStats ==
    /\ NothingLoaded
    /\ page = NoPage
    /\ input \in [rows : SeqsUpTo(CategoryStatsRows, MaxRows),
                  branches : SeqsUpTo(Categories, MaxBranches),
                  year : {2025}, month : {2, 3}]
    /\ output = [n \in {"fetchCategoryStatsByMonth"} |-> Pending]

CategoryStats_call ==
    /\ ~output["fetchCategoryStatsByMonth"].done
    /\ output' = Returned("fetchCategoryStatsByMonth",
            fetchCategoryStatsByMonth(input.rows, input.branches, input.year, input.month))
    /\ UNCHANGED << input, page, lifecycleVars >>

NextCategoryStats == CategoryStats_call

SpecCategoryStats == InitCategoryStats /\ [][NextCategoryStats]_vars

----------------------------------------------------------------------------
(* CHReports: the three download handlers *)

\* The functions services/reportService exports.
reportService_exports ==
    {"fetchBHRReportStats", "updateReportStatus", "getQualitativeMetricsForHeatmap",
     "fetchRecentReports", "fetchReportById", "fetchMonthlySummaryReport",
     "fetchCategoryBreakdown", "exportBranchVisitData", "exportBHRPerformanceSummary",
     "exportBranchAssignments", "fetchCategoryStatsByMonth"}

Downloads == {"BranchVisits", "BHPerformance", "BranchAssignments"}

\* The export function each handler calls, by the name CHReports imports.
CHReports_exportCalled(d) ==
    CASE d = "BranchVisits" -> "exportBranchVisitData"
      [] d = "BHPerformance" -> "exportBHPerformanceSummary"
      [] d = "BranchAssignments" -> "exportBranchAssignments"

\* Most records an export returns, and most files one button produces.
MaxRecords == 1
MaxFiles == 1

\* State of one download: the isDownloading flag, whether the handler is
\* waiting for the export, the last toast, the files produced, whether an
\* exception left the handler, and how the last run of the handler ended.
NoDownload ==
    [isDownloading |-> FALSE, awaiting |-> FALSE, toast |-> "none", files |-> 0,
     escaped |-> FALSE, ended |-> "never"]

InitExport ==
    /\ NothingLoaded
    /\ input \in [records : [Downloads -> 0 .. MaxRecords]]
    /\ output = << >>
    /\ page = [d \in Downloads |-> NoDownload]

\* The handler up to its await.  Calling a name the service does not
\* export throws inside the try block: the catch shows "Export failed" and
\* the finally resets the flag.
CHReports_handleDownload(d) ==
    /\ ~page[d].isDownloading
    /\ page[d].files < MaxFiles
    /\ page' = [page EXCEPT ![d] =
            IF CHReports_exportCalled(d) \in reportService_exports
              THEN [@ EXCEPT !.isDownloading = TRUE, !.awaiting = TRUE]
              ELSE [@ EXCEPT !.isDownloading = FALSE, !.toast = "Export failed",
                             !.ended = "threw"]]
    /\ UNCHANGED << input, output, lifecycleVars >>

\* The export resolved with input.records[d] records.
CHReports_exportResolved(d) ==
    /\ page[d].awaiting
    /\ page' = [page EXCEPT ![d] =
            IF input.records[d] = 0
              THEN [@ EXCEPT !.toast = "No data to export", !.awaiting = FALSE,
                             !.isDownloading = FALSE, !.ended = "returned"]
              ELSE [@ EXCEPT !.files = @ + 1, !.toast = "Download complete",
                             !.awaiting = FALSE, !.isDownloading = FALSE,
                             !.ended = "returned"]]
    /\ UNCHANGED << input, output, lifecycleVars >>

\* The export rejected (the store reported an error).
CHReports_exportRejected(d) ==
    /\ page[d].awaiting
    /\ page' = [page EXCEPT ![d] =
            [@ EXCEPT !.toast = "Export failed", !.awaiting = FALSE,
                      !.isDownloading = FALSE, !.ended = "rejected"]]
    /\ UNCHANGED << input, output, lifecycleVars >>

NextExport ==
    \E d \in Downloads :
        \/ CHReports_handleDownload(d)
        \/ CHReports_exportResolved(d)
        \/ CHReports_exportRejected(d)

SpecExport == InitExport /\ [][NextExport]_vars

----------------------------------------------------------------------------
(* CHReports: the monthly summary statistics *)

\* The visits query of fetchMonthlySummaryReport: the month's first to last
\* day, status submitted or approved; an empty or missing result is [].
fetchMonthlySummaryReport(rows, year, month) ==
    LET data == SelectSeq(rows,
                    LAMBDA r :
                        /\ DateLE(<< year, month, 1 >>, r.visit_date)
                        /\ DateLE(r.visit_date,
                                  << year, month, LastDayOfMonth(year, month) >>)
                        /\ r.status \in {"submitted", "approved"})
    IN  IF Len(data) = 0 THEN << >> ELSE data

\* A JS number: an integer, or NaN.
Num(n) == [nan |-> FALSE, n |-> n]
NaN == [nan |-> TRUE, n |-> 0]

\* Math.round(num / den * scale), which is NaN for 0 / 0.
RoundRatio(num, den, scale) ==
    IF den = 0 THEN NaN
    ELSE Num(Round(num * scale, den))

\* `x || 0` on a JS number.
NumOrZero(x) == IF x.nan \/ x.n = 0 THEN Num(0) ELSE x

RECURSIVE SumParticipants(_)
SumParticipants(summaryData) ==
    IF summaryData = << >> THEN 0
    ELSE OrZero(Head(summaryData).total_participants) + SumParticipants(Tail(summaryData))

\* "Total Branch Visits": summaryData?.length || 0
CHReports_totalBranchVisits(summaryData) == NumOrZero(Num(Len(summaryData)))

\* "Coverage Percentage": distinct branch ids over visits, times 100; an
\* empty array is truthy, so it takes the division too.
CHReports_coveragePercentage(summaryData) ==
    RoundRatio(Cardinality({ summaryData[k].branch_id : k \in DOMAIN summaryData }),
               Len(summaryData), 100)

\* "Avg. Participation": sum of total_participants over visits.
CHReports_avgParticipation(summaryData) ==
    RoundRatio(SumParticipants(summaryData), Len(summaryData), 1)

SummaryRows ==
    { [status |-> st, visit_date |-> d, branch_id |-> b, total_participants |-> p] :
        st \in {"draft", "submitted"},
        d \in { << 2025, 2, 28 >>, << 2025, 3, 1 >> },
        b \in {"b1", "b2"},
        p \in {NoNum, Some(25)} }

SummaryNames == {"Total Branch Visits", "Coverage Percentage", "Avg. Participation"}

InitSummary ==
    /\ NothingLoaded
    /\ page = NoPage
    /\ input \in [rows : SeqsUpTo(SummaryRows, MaxRows), year : {2025}, month : {2}]
    /\ output = [n \in SummaryNames |-> Pending]

\* summaryData once the query of the page has loaded.
summaryData == fetchMonthlySummaryReport(input.rows, input.year, input.month)

CHReports_showTotalBranchVisits ==
    /\ ~output["Total Branch Visits"].done
    /\ output' = Returned("Total Branch Visits", CHReports_totalBranchVisits(summaryData))
    /\ UNCHANGED << input, page, lifecycleVars >>

CHReports_showCoveragePercentage ==
    /\ ~output["Coverage Percentage"].done
    /\ output' = Returned("Coverage Percentage", CHReports_coveragePercentage(summaryData))
    /\ UNCHANGED << input, page, lifecycleVars >>

CHReports_showAvgParticipation ==
    /\ ~output["Avg. Participation"].done
    /\ output' = Returned("Avg. Participation", CHReports_avgParticipation(summaryData))
    /\ UNCHANGED << input, page, lifecycleVars >>

NextSummary ==
    \/ CHReports_showTotalBranchVisits
    \/ CHReports_showCoveragePercentage
    \/ CHReports_showAvgParticipation

SpecSummary == InitSummary /\ [][NextSummary]_vars

----------------------------------------------------------------------------
(* CHDashboard: the "Top Performing BHRs" list *)

\* mappedPerformers: each performer with coverage (overallScore on 0..5 as
\* a percentage) and reports (its visitCount).
CHDashboard_mappedPerformers(topPerformers) ==
    [k \in DOMAIN topPerformers |->
        [name |-> topPerformers[k].name,
         visitCount |-> topPerformers[k].visitCount,
         overallScore |-> topPerformers[k].overallScore,
         coverage |-> OrZero(topPerformers[k].overallScore) * 20,
         reports |-> topPerformers[k].visitCount]]

\* The comparator with the two counts exchanged (ascending order).
CHDashboard_compare_ascending(a, b) == a.reports - b.reports

\* The comparator handed to sort.
CHDashboard_compare(a, b) == b.reports - a.reports

\* Array.prototype.sort(compare): a stable sort.  x, which followed every
\* element of the sorted prefix, goes before the first element it must
\* precede.
CHDashboard_insert(x, sorted) ==
    LET before == { k \in 1 .. Len(sorted) : CHDashboard_compare(x, sorted[k]) < 0 }
        at == IF before = {} THEN Len(sorted) + 1
              ELSE CHOOSE k \in before : \A j \in before : k <= j
    IN  SubSeq(sorted, 1, at - 1) \o << x >> \o SubSeq(sorted, at, Len(sorted))

RECURSIVE CHDashboard_sort(_)
CHDashboard_sort(items) ==
    IF items = << >> THEN << >>
    ELSE CHDashboard_insert(items[Len(items)],
                            CHDashboard_sort(SubSeq(items, 1, Len(items) - 1)))

\* The number of entries the list keeps.
TopShown == 5

\* slice(0, TopShown)
CHDashboard_slice(items) ==
    SubSeq(items, 1, IF Len(items) < TopShown THEN Len(items) ELSE TopShown)

\* The rendered list; nothing is listed for an empty mappedPerformers.
CHDashboard_topPerformersList(topPerformers) ==
    CHDashboard_slice(CHDashboard_sort(CHDashboard_mappedPerformers(topPerformers)))

\* Largest number of performers drawn.
MaxPerformers == 6

PerformerNames == << "A", "B", "C", "D", "E", "F", "G" >>
VisitCounts == {3, 5}
OverallScores == {NoNum, Some(4)}

\* Performers with distinct names, in the order the service returned them.
TopPerformers ==
    UNION { { [k \in 1 .. n |->
                 [name |-> PerformerNames[k], visitCount |-> c[k], overallScore |-> o[k]]] :
              c \in [1 .. n -> VisitCounts], o \in [1 .. n -> OverallScores] } :
            n \in 0 .. MaxPerformers }

InitTopPerformers ==
    /\ NothingLoaded
    /\ page = NoPage
    /\ input \in TopPerformers
    /\ output = [n \in {"Top Performing BHRs"} |-> Pending]

CHDashboard_showTopPerformers ==
    /\ ~output["Top Performing BHRs"].done
    /\ output' = Returned("Top Performing BHRs", CHDashboard_topPerformersList(input))
    /\ UNCHANGED << input, page, lifecycleVars >>

NextTopPerformers == CHDashboard_showTopPerformers

SpecTopPerformers == InitTopPerformers /\ [][NextTopPerformers]_vars

----------------------------------------------------------------------------
(* fetchCategoryBreakdown *)

\* The step without the running count: acc[category] = 1.
CategoryBreakdown_step_overwrite(acc, branch) ==
    LET category == IF Truthy(branch.category) THEN branch.category ELSE "Uncategorized"
        at == { k \in 1 .. Len(acc) : acc[k].name = category }
    IN  IF at = {} THEN Append(acc, [name |-> category, value |-> 1])
        ELSE [k \in 1 .. Len(acc) |->
                 IF k \in at THEN [name |-> category, value |-> 1] ELSE acc[k]]

\* One step of the reduce: acc[category] = (acc[category] || 0) + 1, with
\* acc kept as its entries in insertion order (the order of Object.entries
\* for these keys).
CategoryBreakdown_step(acc, branch) ==
    LET category == IF Truthy(branch.category) THEN branch.category ELSE "Uncategorized"
        at == { k \in 1 .. Len(acc) : acc[k].name = category }
    IN  IF at = {} THEN Append(acc, [name |-> category, value |-> 0 + 1])
        ELSE [k \in 1 .. Len(acc) |->
                 IF k \in at THEN [name |-> category, value |-> acc[k].value + 1]
                 ELSE acc[k]]

RECURSIVE CategoryBreakdown_reduce(_)
CategoryBreakdown_reduce(data) ==
    IF data = << >> THEN << >>
    ELSE CategoryBreakdown_step(CategoryBreakdown_reduce(SubSeq(data, 1, Len(data) - 1)),
                                data[Len(data)])

\* The select of the category column of every branch, then the entries of
\* the reduced object as {name, value}.
fetchCategoryBreakdown(branches) ==
    CategoryBreakdown_reduce([k \in DOMAIN branches |-> [category |-> branches[k].category]])

\* Most rows of the branches table drawn.
MaxBranchRows == 4

BranchCategories == {Null, "", "gold", "silver"}

BreakdownCalls == {"first call", "second call"}

InitCategoryBreakdown ==
    /\ NothingLoaded
    /\ page = NoPage
    /\ input \in SeqsUpTo({ [category |-> c] : c \in BranchCategories }, MaxBranchRows)
    /\ output = [n \in BreakdownCalls |-> Pending]

\* A call of fetchCategoryBreakdown; the branches table is left as it is.
CategoryBreakdown_call(n) ==
    /\ ~output[n].done
    /\ output' = Returned(n, fetchCategoryBreakdown(input))
    /\ UNCHANGED << input, page, lifecycleVars >>

NextCategoryBreakdown == \E n \in BreakdownCalls : CategoryBreakdown_call(n)

SpecCategoryBreakdown == InitCategoryBreakdown /\ [][NextCategoryBreakdown]_vars

----------------------------------------------------------------------------
(* NewVisit: the loading flag, saveStatus and the requests in flight *)

\* Most handler runs (Submit or Save as Draft clicks) of one page visit.
MaxClicks == 3

\* What createBranchVisit can answer: {success: true}, {success: false,
\* error}, or a rejection.
CreateOutcomes == {"succeeded", "reported failure", "threw"}

\* The page after mount: loading false, saveStatus idle, the
\* assigned-branches fetch of the effect started, no create in flight.
InitNewVisitPage ==
    /\ NothingLoaded
    /\ input \in [branchId : {"", "b1"}]
    /\ output = << >>
    /\ page = [loading |-> FALSE, saveStatus |-> "idle", fetchBranches |-> "pending",
               creating |-> << >>, clicks |-> 0,
               finished |-> [op |-> "none", path |-> "none"]]

\* The fetchBranches effect settles: setBranches or the error toast, then
\* `finally { setLoading(false) }`.
NewVisitPage_fetchBranchesSettled(ok) ==
    /\ page.fetchBranches = "pending"
    /\ page' = [page EXCEPT !.fetchBranches = IF ok THEN "resolved" ELSE "rejected",
                            !.loading = FALSE]
    /\ UNCHANGED << input, output, lifecycleVars >>

\* The Submit button (disabled={loading}) is pressed: onSubmit up to its
\* await of createBranchVisit.
NewVisitPage_onSubmit ==
    /\ ~page.loading
    /\ page.clicks < MaxClicks
    /\ page' = [page EXCEPT !.loading = TRUE, !.saveStatus = "saving",
                            !.creating = Append(@, "NewVisit.onSubmit"),
                            !.clicks = @ + 1,
                            !.finished = [op |-> "none", path |-> "none"]]
    /\ UNCHANGED << input, output, lifecycleVars >>

\* onSubmit after the await: saved on result.success, otherwise the throw
\* into catch (error toast, saveStatus error); finally setLoading(false).
NewVisitPage_onSubmitSettled(k, outcome) ==
    /\ k \in DOMAIN page.creating
    /\ page.creating[k] = "NewVisit.onSubmit"
    /\ page' = [page EXCEPT
            !.saveStatus = IF outcome = "succeeded" THEN "saved" ELSE "error",
            !.loading = FALSE,
            !.creating = SubSeq(@, 1, k - 1) \o SubSeq(@, k + 1, Len(@)),
            !.finished = [op |-> "NewVisit.onSubmit", path |-> outcome]]
    /\ UNCHANGED << input, output, lifecycleVars >>

\* The Save as Draft button (disabled={loading}) is pressed: saveDraft up
\* to its await, or to its return when no branch is selected.
NewVisitPage_saveDraft ==
    /\ ~page.loading
    /\ page.clicks < MaxClicks
    /\ IF input.branchId = ""
         THEN page' = [page EXCEPT !.saveStatus = "idle", !.loading = FALSE,
                                   !.clicks = @ + 1,
                                   !.finished = [op |-> "NewVisit.saveDraft",
                                                 path |-> "branch missing"]]
         ELSE page' = [page EXCEPT !.saveStatus = "saving", !.loading = TRUE,
                                   !.creating = Append(@, "NewVisit.saveDraft"),
                                   !.clicks = @ + 1,
                                   !.finished = [op |-> "none", path |-> "none"]]
    /\ UNCHANGED << input, output, lifecycleVars >>

\* saveDraft after the await: `if (result)` holds for either answer
\* object, so both give saved and the success toast; a rejection goes to
\* catch, which shows the error toast and leaves saveStatus; finally
\* setLoading(false).
NewVisitPage_saveDraftSettled(k, outcome) ==
    /\ k \in DOMAIN page.creating
    /\ page.creating[k] = "NewVisit.saveDraft"
    /\ page' = [page EXCEPT
            !.saveStatus = IF outcome = "threw" THEN @ ELSE "saved",
            !.loading = FALSE,
            !.creating = SubSeq(@, 1, k - 1) \o SubSeq(@, k + 1, Len(@)),
            !.finished = [op |-> "NewVisit.saveDraft", path |-> outcome]]
    /\ UNCHANGED << input, output, lifecycleVars >>

NextNewVisitPage ==
    \/ \E ok \in BOOLEAN : NewVisitPage_fetchBranchesSettled(ok)
    \/ NewVisitPage_onSubmit
    \/ \E k \in 1 .. MaxClicks, o \in CreateOutcomes : NewVisitPage_onSubmitSettled(k, o)
    \/ NewVisitPage_saveDraft
    \/ \E k \in 1 .. MaxClicks, o \in CreateOutcomes : NewVisitPage_saveDraftSettled(k, o)

SpecNewVisitPage == InitNewVisitPage /\ [][NextNewVisitPage]_vars

----------------------------------------------------------------------------
(* Loading flags of the data-loading and mutation flows *)

\* Most runs of a flow the user can start again.
MaxRuns == 2

\* The awaits of loadDashboardData, in order.
DashboardFetches ==
    << "fetchDashboardStats", "fetchCategoryBreakdown", "fetchTopPerformers",
       "fetchQualitativeAssessments" >>

\* CHReports with no download started; the edit modal open and idle;
\* CHDashboard and MyVisits just mounted, their effects having set the
\* flag and issued the first request.
InitFlows ==
    /\ NothingLoaded
    /\ input = [records |-> [d \in Downloads |-> 0]]
    /\ output = << >>
    /\ page = [n \in Downloads \cup {"EditVisitModal.updateVisit", "CHDashboard.loadDashboardData",
                                      "CHDashboard.loadTrendsData", "MyVisits.fetchVisits"} |->
                 IF n \in Downloads THEN NoDownload
                 ELSE IF n = "EditVisitModal.updateVisit"
                   THEN [loading |-> FALSE, pending |-> 0, runs |-> 0, ended |-> "never"]
                 ELSE IF n = "CHDashboard.loadDashboardData"
                   THEN [loading |-> TRUE, pending |-> 1, runs |-> 1, ended |-> "never"]
                 ELSE [loading |-> TRUE, pending |-> 1, runs |-> 1, ended |-> "never"]]

\* updateVisit up to its await (the modal's buttons are disabled while
\* loading).
EditVisitModal_updateVisit_called ==
    LET f == "EditVisitModal.updateVisit" IN
    /\ ~page[f].loading
    /\ page[f].runs < MaxRuns
    /\ page' = [page EXCEPT ![f] = [@ EXCEPT !.loading = TRUE, !.pending = @ + 1,
                                            !.runs = @ + 1]]
    /\ UNCHANGED << input, output, lifecycleVars >>

\* updateVisit with the catch and no finally: the flag is reset on the
\* success path only.
EditVisitModal_updateVisit_settled_noFinally(ok) ==
    LET f == "EditVisitModal.updateVisit" IN
    /\ page[f].pending > 0
    /\ page' = [page EXCEPT ![f] = [@ EXCEPT !.loading = IF ok THEN FALSE ELSE @,
                                            !.pending = @ - 1,
                                            !.ended = IF ok THEN "resolved" ELSE "rejected"]]
    /\ UNCHANGED << input, output, lifecycleVars >>

\* updateVisit after the await: the toasts, then finally setLoading(false).
EditVisitModal_updateVisit_settled(ok) ==
    LET f == "EditVisitModal.updateVisit" IN
    /\ page[f].pending > 0
    /\ page' = [page EXCEPT ![f] = [@ EXCEPT !.loading = FALSE, !.pending = @ - 1,
                                            !.ended = IF ok THEN "resolved" ELSE "rejected"]]
    /\ UNCHANGED << input, output, lifecycleVars >>

\* loadDashboardData: the awaited fetch answers.  On success the next
\* fetch of the four is awaited; after the last one, or on a rejection
\* (catch), finally setIsLoading(false).  `pending` is the index of the
\* fetch awaited.
CHDashboard_loadDashboardData_answered(ok) ==
    LET f == "CHDashboard.loadDashboardData" IN
    /\ page[f].pending > 0
    /\ page' = [page EXCEPT ![f] =
            IF ok /\ page[f].pending < Len(DashboardFetches)
              THEN [@ EXCEPT !.pending = @ + 1]
              ELSE [@ EXCEPT !.loading = FALSE, !.pending = 0,
                             !.ended = IF ok THEN "resolved" ELSE "rejected"]]
    /\ UNCHANGED << input, output, lifecycleVars >>

\* loadTrendsData after its await: finally setIsTrendsLoading(false).
CHDashboard_loadTrendsData_settled(ok) ==
    LET f == "CHDashboard.loadTrendsData" IN
    /\ page[f].pending > 0
    /\ page' = [page EXCEPT ![f] = [@ EXCEPT !.loading = FALSE, !.pending = 0,
                                            !.ended = IF ok THEN "resolved" ELSE "rejected"]]
    /\ UNCHANGED << input, output, lifecycleVars >>

\* fetchVisits run again (onUpdateSuccess of the edit modal), also while an
\* earlier run is pending: setLoading(true) and a new select.
MyVisits_fetchVisits_called ==
    LET f == "MyVisits.fetchVisits" IN
    /\ page[f].runs < MaxRuns
    /\ page' = [page EXCEPT ![f] = [@ EXCEPT !.loading = TRUE, !.pending = @ + 1,
                                            !.runs = @ + 1]]
    /\ UNCHANGED << input, output, lifecycleVars >>

\* A run of fetchVisits after its await: setVisits or the error toast,
\* then finally setLoading(false).
MyVisits_fetchVisits_settled(ok) ==
    LET f == "MyVisits.fetchVisits" IN
    /\ page[f].pending > 0
    /\ page' = [page EXCEPT ![f] = [@ EXCEPT !.loading = FALSE, !.pending = @ - 1,
                                            !.ended = IF ok THEN "resolved" ELSE "rejected"]]
    /\ UNCHANGED << input, output, lifecycleVars >>

\* The downloads of the flows specification: one whose export exists, the
\* one whose export does not.
FlowDownloads == {"BranchVisits", "BHPerformance"}

NextFlows ==
    \/ \E d \in FlowDownloads : CHReports_handleDownload(d)
    \/ \E d \in FlowDownloads : CHReports_exportResolved(d)
    \/ \E d \in FlowDownloads : CHReports_exportRejected(d)
    \/ EditVisitModal_updateVisit_called
    \/ \E ok \in BOOLEAN : EditVisitModal_updateVisit_settled(ok)
    \/ \E ok \in BOOLEAN : CHDashboard_loadDashboardData_answered(ok)
    \/ \E ok \in BOOLEAN : CHDashboard_loadTrendsData_settled(ok)
    \/ MyVisits_fetchVisits_called
    \/ \E ok \in BOOLEAN : MyVisits_fetchVisits_settled(ok)

\* Every request in flight is answered in the end, one way or the other.
FlowsAnswered ==
    /\ \A d \in FlowDownloads :
          WF_vars(CHReports_exportResolved(d) \/ CHReports_exportRejected(d))
    /\ WF_vars(\E ok \in BOOLEAN : EditVisitModal_updateVisit_settled(ok))
    /\ WF_vars(\E ok \in BOOLEAN : CHDashboard_loadDashboardData_answered(ok))
    /\ WF_vars(\E ok \in BOOLEAN : CHDashboard_loadTrendsData_settled(ok))
    /\ WF_vars(\E ok \in BOOLEAN : MyVisits_fetchVisits_settled(ok))

SpecFlows == InitFlows /\ [][NextFlows]_vars /\ FlowsAnswered

----------------------------------------------------------------------------
(* QualitativeHeatmap: the fetch effect on [dateRange, branchCategory] *)

\* Most filter changes after mount.
MaxChanges == 2

\* The filter selections drawn (a date range and branch category each).
HeatmapFilters == {"all", "gold", "march"}

\* Mounted with the first selection: the effect has set loading, cleared
\* the error and called the service; `data` names the selection whose
\* result is held.
InitHeatmapPage ==
    /\ NothingLoaded
    /\ input = << >>
    /\ output = << >>
    /\ page = [filter |-> "all", loading |-> TRUE, error |-> FALSE, data |-> "none",
               fetches |-> {[n |-> 0, filter |-> "all"]}, changes |-> 0]

\* A prop changes: the effect runs again, whatever is pending.
QualitativeHeatmap_filterChanged(f) ==
    /\ f # page.filter
    /\ page.changes < MaxChanges
    /\ page' = [page EXCEPT !.filter = f, !.loading = TRUE, !.error = FALSE,
                            !.fetches = @ \cup {[n |-> page.changes + 1, filter |-> f]},
                            !.changes = @ + 1]
    /\ UNCHANGED << input, output, lifecycleVars >>

\* A call of the service resolves: setData(processedData), then finally
\* setLoading(false).
QualitativeHeatmap_fetchResolved(r) ==
    /\ r \in page.fetches
    /\ page' = [page EXCEPT !.data = r.filter, !.loading = FALSE, !.fetches = @ \ {r}]
    /\ UNCHANGED << input, output, lifecycleVars >>

\* A call of the service rejects: setError, then finally
\* setLoading(false).
QualitativeHeatmap_fetchRejected(r) ==
    /\ r \in page.fetches
    /\ page' = [page EXCEPT !.error = TRUE, !.loading = FALSE, !.fetches = @ \ {r}]
    /\ UNCHANGED << input, output, lifecycleVars >>

NextHeatmapPage ==
    \/ \E f \in HeatmapFilters : QualitativeHeatmap_filterChanged(f)
    \/ \E r \in [n : 0 .. MaxChanges, filter : HeatmapFilters] :
          QualitativeHeatmap_fetchResolved(r)
    \/ \E r \in [n : 0 .. MaxChanges, filter : HeatmapFilters] :
          QualitativeHeatmap_fetchRejected(r)

SpecHeatmapPage == InitHeatmapPage /\ [][NextHeatmapPage]_vars

----------------------------------------------------------------------------
(* ZHBranchMapping: assign and unassign confirmations *)

\* Largest bh_count reached in the specification.
MaxBhCount == 3

MappingBranches == {"b1", "b2"}
MappingBHs == {"u1", "u2"}

\* The page after loadData: the lists grouped from the assignments table,
\* and the counts the two other queries return for the same table.
InitBranchMapping ==
    /\ NothingLoaded
    /\ input = << >>
    /\ output = << >>
    /\ \E assigned \in SUBSET (MappingBranches \X MappingBHs) :
          page = [branchAssignments |->
                     [b \in MappingBranches |->
                         (IF << b, "u1" >> \in assigned THEN << "u1" >> ELSE << >>)
                         \o (IF << b, "u2" >> \in assigned THEN << "u2" >> ELSE << >>)],
                  bh_count |->
                     [b \in MappingBranches |->
                         Cardinality({ u \in MappingBHs : << b, u >> \in assigned })],
                  branches_assigned |->
                     [u \in MappingBHs |->
                         Cardinality({ b \in MappingBranches : << b, u >> \in assigned })],
                  toast |-> "none"]

\* handleConfirmDialog with dialogType "assign": the Select offers every
\* BH of bhUsers.  `result` is the answer of assignBranchToBH: a row, or
\* nothing / a rejection.  With a row the entry is pushed unless the list
\* already holds the BH, and both counts are raised in either case.
ZHBranchMapping_handleConfirmDialog(b, u, result) ==
    /\ page.bh_count[b] < MaxBhCount
    /\ page' =
          IF ~result THEN [page EXCEPT !.toast = "none"]
          ELSE LET exists == \E k \in DOMAIN page.branchAssignments[b] :
                                 page.branchAssignments[b][k] = u
               IN  [page EXCEPT
                      !.branchAssignments[b] = IF exists THEN @ ELSE Append(@, u),
                      !.bh_count[b] = OrZero(<< @ >>) + 1,
                      !.branches_assigned[u] = OrZero(<< @ >>) + 1,
                      !.toast = "none"]
    /\ UNCHANGED << input, output, lifecycleVars >>

\* handleUnassignBH for the entry the unassign dialog was opened on.
\* `result` is the answer of unassignBranchFromBH.
ZHBranchMapping_handleUnassignBH(b, u, result) ==
    /\ \E k \in DOMAIN page.branchAssignments[b] : page.branchAssignments[b][k] = u
    /\ page' =
          IF ~result THEN [page EXCEPT !.toast = "Error"]
          ELSE [page EXCEPT
                  !.branchAssignments[b] = SelectSeq(@, LAMBDA a : a # u),
                  !.bh_count[b] = IF @ - 1 > 0 THEN @ - 1 ELSE 0,
                  !.branches_assigned[u] = IF @ - 1 > 0 THEN @ - 1 ELSE 0,
                  !.toast = "BH Unassigned"]
    /\ UNCHANGED << input, output, lifecycleVars >>

NextBranchMapping ==
    \/ \E b \in MappingBranches, u \in MappingBHs, result \in BOOLEAN :
          ZHBranchMapping_handleConfirmDialog(b, u, result)
    \/ \E b \in MappingBranches, u \in MappingBHs, result \in BOOLEAN :
          ZHBranchMapping_handleUnassignBH(b, u, result)

SpecBranchMapping == InitBranchMapping /\ [][NextBranchMapping]_vars

----------------------------------------------------------------------------
(* updateReportStatus on a table of several visits *)

\* Most visits in the table updateReportStatus is applied to.
MaxStored == 2

\* Stored visits of every status, with set and unset fields.
StoredVisits ==
    { Row(st, "b1", Today, m, Some(0), Some(0), Some(0), q, NoNum) :
        st \in Statuses, m \in {NoNum, Some(50)}, q \in {Null, "yes"} }

InitStatusUpdate ==
    /\ NothingLoaded
    /\ page = NoPage
    /\ input \in [table : [1 .. MaxStored -> StoredVisits \cup {NoRow}],
                   reportId : 1 .. MaxStored,
                   status : {"approved", "rejected"}]
    /\ output = [n \in {"updateReportStatus"} |-> Pending]

\* updateReportStatus(reportId, status) runs against the table.
updateReportStatus_call ==
    /\ ~output["updateReportStatus"].done
    /\ output' = Returned("updateReportStatus",
                          updateReportStatus(input.table, input.reportId, input.status))
    /\ UNCHANGED << input, page, lifecycleVars >>

NextStatusUpdate == updateReportStatus_call

SpecStatusUpdate == InitStatusUpdate /\ [][NextStatusUpdate]_vars

----------------------------------------------------------------------------
(* Lifecycle claims *)

Terminal == {"approved", "rejected"}

\* C1: once the stored status of a visit is approved or rejected, no later
\* update (reviewer approve/reject, owner save/submit) changes that status,
\* also when the update comes from a view loaded before the status changed.
C1_TerminalStatusKept ==
    [][\A i \in VisitIds :
          (branch_visits[i].status \in Terminal /\ branch_visits'[i] # NoRow)
              => branch_visits'[i].status = branch_visits[i].status]_vars

\* C2: the owner's save-as-draft and submit of the edit modal change nothing
\* of a visit whose stored status is submitted, approved or rejected.
C2_OwnerEditsOnlyDrafts ==
    [][OwnerEdit(Sessions, LifecycleInputs, FALSE)
          => \A i \in VisitIds :
                branch_visits[i].status \in {"submitted", "approved", "rejected"}
                    => branch_visits'[i] = branch_visits[i]]_vars

\* C3: a reviewer's approve or reject takes effect only on a visit whose
\* stored status is submitted at the moment of the write, and no visit goes
\* from draft to approved or rejected in one step.
C3_ReviewOnlySubmitted ==
    [][/\ \A r \in Reviewers, st \in Terminal :
             (BHRDetailsModal_handleStatusUpdate(r, st, FALSE, FALSE)
                  /\ branch_visits' # branch_visits)
                => branch_visits[reportDetails[r].id].status = "submitted"
       /\ \A i \in VisitIds :
             branch_visits[i].status = "draft"
                => branch_visits'[i].status \notin Terminal]_vars

\* C4: the owner's delete removes a visit only if its stored status is
\* draft at the time of the delete.
C4_DeleteOnlyDrafts ==
    [][\A i \in VisitIds :
          (branch_visits[i] # NoRow /\ branch_visits'[i] = NoRow)
              => branch_visits[i].status = "draft"]_vars

----------------------------------------------------------------------------
(* Form claims, under SpecForms *)

Inserted(i) == branch_visits[i] = NoRow /\ branch_visits'[i] # NoRow

SubmitAttempt ==
    \/ lastOp.op \in {"NewVisit.onSubmit", "LegacyNewVisit.handleSubmit"}
    \/ /\ lastOp.op \in {"EditVisitModal.updateVisit", "RadioEditVisitModal.onSubmit"}
       /\ lastOp.carried.status = "submitted"

CarriesPctOutOfRange ==
    \E f \in PctFields :
        /\ IsSome(lastOp.carried[f])
        /\ (Val(lastOp.carried[f]) < 0 \/ Val(lastOp.carried[f]) > 100)

\* C6: a submit action that carries a percentage outside [0,100] is
\* rejected by the validator and issues no insert or update; this holds for
\* the Submit of the new-visit forms and for the Submit of both edit modals.
C6_OutOfRangeNotIssued ==
    (SubmitAttempt /\ CarriesPctOutOfRange) => ~lastOp.issued

\* C7: every qualitative value written to branch_visits by a create or
\* edit path is exactly "yes", exactly "no", or unset.
C7_QualitativeYesNo ==
    \A i \in VisitIds :
        branch_visits[i] # NoRow
            => \A f \in QualFields : branch_visits[i][f] \in {"yes", "no", Null}

----------------------------------------------------------------------------
(* Function claims *)

\* C10: the coverage shown is round(participants / invited * 100) when
\* invited > 0, exactly 0 when invited is 0 or absent, and the three
\* computations (NewVisit, MyVisits, edit modal) agree on every input.
C10_CoverageAgrees ==
    LET expected ==
            IF IsSome(input.invited) /\ Val(input.invited) > 0
              THEN PercentText(Round(CoerceNumber(input.participants) * 100,
                                     Val(input.invited)))
              ELSE "0%"
    IN  /\ \A n \in CoverageNames :
              (output[n].done /\ CoerceNumber(input.invited) >= 0)
                  => output[n].value = expected
        /\ \A n, m \in CoverageNames :
              (output[n].done /\ output[m].done) => output[n].value = output[m].value

\* C8: in every row returned by getQualitativeMetricsForHeatmap (the
\* yes/no service), whatever the approved visits hold in their qualitative
\* fields, yes + no = total.
C8_YesPlusNoIsTotal ==
    output["yesno"].done =>
        \A k \in DOMAIN output["yesno"].value :
            LET row == output["yesno"].value[k] IN
            row.yes + row.no = row.total

\* C9: for a category that has branches in the live branches table but no
\* submitted or approved visit in the month asked for,
\* fetchCategoryStatsByMonth returns a row with visits = 0, avgManning = 0,
\* avgAttrition = 0 and branchCount = the live number of its branches.
C9_ZeroRowForIdleCategory ==
    output["fetchCategoryStatsByMonth"].done =>
        LET result == output["fetchCategoryStatsByMonth"].value
            counted == CategoryStats_query(input.rows, input.year, input.month)
        IN  \A c \in {"gold", "silver"} :
                (/\ branchCounts(input.branches, c) > 0
                 /\ \A k \in DOMAIN counted :
                        CategoryOrUncategorized(counted[k].branch_category) # c)
                  => \E k \in DOMAIN result :
                        result[k] = [name |-> c, visits |-> 0, avgManning |-> 0,
                                     avgAttrition |-> 0,
                                     branchCount |-> branchCounts(input.branches, c)]

----------------------------------------------------------------------------
(* Page claims *)

\* C11: when there are no records to export and the store does not fail,
\* each CHReports download handler (branch visits, BH performance, branch
\* assignments) ends with no file produced, the "No data to export" notice
\* shown, no exception escaped and its downloading flag back to false.
C11_EmptyExportNotice ==
    \A d \in Downloads :
        (/\ input.records[d] = 0
         /\ page[d].ended \in {"returned", "threw"}
         /\ ~page[d].awaiting)
          => /\ page[d].files = 0
             /\ page[d].toast = "No data to export"
             /\ ~page[d].escaped
             /\ ~page[d].isDownloading

\* C12: every failure of the store during a user-triggered operation
\* (create, edit save/submit, delete, reviewer approve/reject) is caught in
\* the handler and shown as a notice; no handler lets the rejection leave
\* it unhandled.
C12_FailuresCaught ==
    (lastOp.issued /\ lastOp.failed)
        => (lastOp.toast = "error" /\ ~lastOp.unhandled)

\* C13: when fetchMonthlySummaryReport returns an empty list, 'Total Branch
\* Visits', 'Coverage Percentage' and 'Avg. Participation' of CHReports all
\* evaluate to 0, none to an undefined or division-by-zero result.
C13_EmptySummaryIsZero ==
    summaryData = << >>
        => \A n \in SummaryNames : output[n].done => output[n].value = Num(0)

\* C14: with no branch selected (branchId empty), neither NewVisit.onSubmit
\* nor NewVisit.saveDraft issues a create request.
C14_NoBranchNoCreate ==
    (lastOp.op \in {"NewVisit.onSubmit", "NewVisit.saveDraft"}
        /\ lastOp.carried.branch_id = "")
    => ~lastOp.issued

\* C15: no create or update request of the new-visit form or of either edit
\* modal carries a visit date after the current day.
C15_NoFutureVisitDate ==
    (lastOp.op \in {"NewVisit.onSubmit", "NewVisit.saveDraft",
                    "EditVisitModal.updateVisit", "RadioEditVisitModal.onSubmit"}
        /\ lastOp.issued)
    => ~(lastOp.carried.visit_date > Today)

\* C16: the qualitative value persisted by a new-visit page is the mapping
\* of the toggle state of the question at that time: true gives "yes",
\* false gives "no", null gives null.
C16_PersistedAnswerIsToggle ==
    LET mapped(t) == IF t = "true" THEN "yes" ELSE IF t = "false" THEN "no" ELSE Null
        toggle(n) == IF n = "LegacyNewVisit.handleSubmit"
                       THEN input.legacy.leaders_aligned_with_code
                       ELSE input.leadersAlignedWithCode
    IN  \A n \in DOMAIN output :
            output[n].done =>
                output[n].value.leaders_aligned_with_code = mapped(toggle(n))

\* C17: the top-performers list holds at most five of the performers, in
\* descending order of report count, and a performer with strictly more
\* visits than a listed one is itself listed, and before it; for
\* [A:3, B:5, C:5], B and C both precede A.
C17_MoreVisitsListedFirst ==
    output["Top Performing BHRs"].done =>
        LET list == output["Top Performing BHRs"].value
            pos(nm) == { k \in 1 .. Len(list) : list[k].name = nm }
        IN  /\ Len(list) <= 5
            /\ Len(list) = (IF Len(input) < 5 THEN Len(input) ELSE 5)
            /\ \A k \in 1 .. Len(list) :
                  \E j \in 1 .. Len(input) :
                      /\ input[j].name = list[k].name
                      /\ input[j].visitCount = list[k].reports
            /\ \A j, k \in 1 .. Len(list) : j < k => list[j].reports >= list[k].reports
            /\ \A a, b \in 1 .. Len(input) :
                  (input[a].visitCount > input[b].visitCount /\ pos(input[b].name) # {})
                  => \E j \in pos(input[a].name) : \A k \in pos(input[b].name) : j < k

C17_Witness ==
    /\ output["Top Performing BHRs"].done
    /\ Len(input) = 3
    /\ << input[1].visitCount, input[2].visitCount, input[3].visitCount >> = << 3, 5, 5 >>
    /\ LET list == output["Top Performing BHRs"].value
       IN  { list[1].name, list[2].name } = {"B", "C"} /\ list[3].name = "A"

\* C18: fetchCategoryBreakdown returns one entry per distinct category, its
\* value the number of branch rows of that category (rows without a
\* category under 'Uncategorized'); the values sum to the number of
\* branches; two calls on an unchanged table return the same output.
C18_BreakdownCountsBranches ==
    LET named(c) == IF c = Null \/ c = "" THEN "Uncategorized" ELSE c
        rowsOf(nm) == { k \in 1 .. Len(input) : named(input[k].category) = nm }
        present == { named(input[k].category) : k \in 1 .. Len(input) }
        sum[k \in Nat] == IF k = 0 THEN 0 ELSE
            output["first call"].value[k].value + sum[k - 1]
    IN  /\ \A n \in DOMAIN output :
              output[n].done =>
                  LET res == output[n].value IN
                  /\ { res[k].name : k \in 1 .. Len(res) } = present
                  /\ Len(res) = Cardinality(present)
                  /\ \A k \in 1 .. Len(res) : res[k].value = Cardinality(rowsOf(res[k].name))
        /\ output["first call"].done =>
              sum[Len(output["first call"].value)] = Len(input)
        /\ (output["first call"].done /\ output["second call"].done)
              => output["first call"].value = output["second call"].value

C18_Witness ==
    /\ output["first call"].done
    /\ output["second call"].done
    /\ Len(input) = 4
    /\ \E j, k \in 1 .. 4 : input[j].category = Null /\ input[k].category = "gold"
    /\ Len(output["first call"].value) = 3

\* C19: the update request of a lifecycle transition (owner save or submit
\* in either edit modal, reviewer approve or reject) carries a refreshed
\* updated_at.
C19_UpdateRefreshesUpdatedAt ==
    (lastOp.op \in {"EditVisitModal.updateVisit", "RadioEditVisitModal.onSubmit",
                    "BHRDetailsModal.handleStatusUpdate"}
        /\ lastOp.issued)
    => "updated_at" \in DOMAIN lastOp.carried

\* C20: a save or submit of the new-visit form or of either edit modal
\* that carries a negative count is refused by the validator: no request
\* is issued.
C20_NegativeCountNotIssued ==
    (lastOp.op \in {"NewVisit.onSubmit", "NewVisit.saveDraft",
                    "EditVisitModal.updateVisit", "RadioEditVisitModal.onSubmit"}
        /\ \E f \in CountFields :
              IsSome(lastOp.carried[f]) /\ Val(lastOp.carried[f]) < 0)
    => ~lastOp.issued

\* C21: getQualitativeMetricsForHeatmap returns six rows, one per
\* qualitative field in the fixed order, whatever the input; a field with
\* no responses has yes = no = total = 0 and the table shows it as a row
\* with 0% in both columns.
C21_SixRowsZeroShown ==
    LET answered(m) == { k \in 1 .. Len(input.rows) :
                           input.rows[k].answers[m] \notin {Null, ""} }
    IN  /\ output["yesno"].done =>
              LET res == output["yesno"].value IN
              /\ Len(res) = 6
              /\ \A k \in 1 .. 6 : res[k].metric = metrics[k]
              /\ \A k \in 1 .. 6 :
                    answered(metrics[k]) = {} =>
                        res[k].yes = 0 /\ res[k].no = 0 /\ res[k].total = 0
        /\ output["table"].done =>
              LET res == output["yesno"].value
                  tab == output["table"].value
              IN  /\ Len(tab) = 6
                  /\ \A k \in 1 .. 6 :
                        /\ tab[k].metric = metrics[k]
                        /\ res[k].total = 0 =>
                              /\ tab[k].Yes = [count |-> 0, text |-> "0%"]
                              /\ tab[k].No = [count |-> 0, text |-> "0%"]

C21_Witness ==
    /\ output["table"].done
    /\ Len(input.rows) = 2
    /\ \E k \in 1 .. 6 : output["yesno"].value[k].total = 0
    /\ \E k \in 1 .. 6 : output["yesno"].value[k].total > 0

C23_OneCreateAtATime ==
    /\ (page.creating # << >> => page.loading)
    /\ Len(page.creating) <= 1

\* C29: once NewVisit.onSubmit or NewVisit.saveDraft has finished, on any
\* path, saveStatus is not 'saving' and loading is false, and saveStatus
\* is 'saved' only if the create request succeeded.
C29_SettledSaveStatus ==
    page.finished.op # "none" =>
        /\ page.saveStatus \in {"idle", "saved", "error"}
        /\ ~page.loading
        /\ page.saveStatus = "saved" => page.finished.path = "succeeded"

\* C24: a reviewer who loaded a visit as submitted can issue a decision
\* whatever another reviewer has written meanwhile, and after a decision
\* the store has applied the stored status is that of this last write.
C24_LastDecisionWins ==
    /\ (lastOp.op = "BHRDetailsModal.handleStatusUpdate" /\ lastOp.issued /\ ~lastOp.failed
            /\ branch_visits[lastOp.id] # NoRow)
          => branch_visits[lastOp.id].status = lastOp.carried.status
    /\ \A r \in Reviewers :
          (reportDetails[r] # NoDetails /\ reportDetails[r].status = "submitted")
          => \A st \in {"approved", "rejected"} :
                ENABLED BHRDetailsModal_handleStatusUpdate(r, st, FALSE, TRUE)

\* One reviewer's approval is stored while another still holds the same
\* visit loaded as submitted.
C24_Witness ==
    /\ lastOp.op = "BHRDetailsModal.handleStatusUpdate"
    /\ lastOp.carried.status = "rejected"
    /\ ~lastOp.failed
    /\ branch_visits[lastOp.id] # NoRow
    /\ branch_visits[lastOp.id].status = "rejected"
    /\ \E r \in Reviewers :
          reportDetails[r] = [id |-> lastOp.id, status |-> "submitted"]

C26_FlagsReturnToFalse ==
    /\ \A d \in FlowDownloads : page[d].isDownloading ~> ~page[d].isDownloading
    /\ \A f \in {"EditVisitModal.updateVisit", "CHDashboard.loadDashboardData",
                   "CHDashboard.loadTrendsData", "MyVisits.fetchVisits"} :
          page[f].loading ~> (~page[f].loading /\ page[f].pending = 0)

C26_Witness ==
    /\ page["EditVisitModal.updateVisit"].ended = "rejected"
    /\ ~page["EditVisitModal.updateVisit"].loading
    /\ page["CHDashboard.loadDashboardData"].ended = "rejected"
    /\ ~page["CHDashboard.loadDashboardData"].loading
    /\ page["CHDashboard.loadTrendsData"].ended = "resolved"
    /\ page["MyVisits.fetchVisits"].ended = "resolved"
    /\ page["MyVisits.fetchVisits"].runs = 2
    /\ page["BranchVisits"].ended = "rejected"
    /\ ~page["BranchVisits"].isDownloading

\* C27: once every outstanding fetch of QualitativeHeatmap has settled,
\* the data shown is the result for the filter selected last, whatever the
\* order of the answers, and loading is false only when no fetch is
\* pending.
C27_LatestFilterShown ==
    /\ (page.fetches = {} /\ ~page.error /\ page.data # "none") => page.data = page.filter
    /\ ~page.loading => page.fetches = {}

\* C28: after any sequence of successful assign and unassign
\* confirmations each branch's bh_count is in step with its list of
\* assignments (they start equal and change by the same amount), no list
\* holds a representative twice, and no count is negative.
C28_CountInStepWithList ==
    /\ \A b \in MappingBranches :
          /\ page.bh_count[b] = Len(page.branchAssignments[b])
          /\ \A j, k \in DOMAIN page.branchAssignments[b] :
                page.branchAssignments[b][j] = page.branchAssignments[b][k] => j = k
          /\ page.bh_count[b] >= 0
    /\ \A u \in MappingBHs : page.branches_assigned[u] >= 0

\* C30: updateReportStatus changes only the status field of the visit with
\* the given id; every other field of that visit and every field of every
\* other visit is left as it was.
C30_OnlyStatusChanges ==
    output["updateReportStatus"].done =>
        LET before == input.table
            after == output["updateReportStatus"].value
        IN  /\ DOMAIN after = DOMAIN before
            /\ \A i \in DOMAIN before :
                  IF i = input.reportId /\ before[i] # NoRow
                    THEN /\ after[i].status = input.status
                         /\ DOMAIN after[i] = DOMAIN before[i]
                         /\ \A f \in DOMAIN before[i] \ {"status"} :
                               after[i][f] = before[i][f]
                    ELSE after[i] = before[i]

C30_Witness ==
    /\ output["updateReportStatus"].done
    /\ input.reportId = 1
    /\ input.status = "approved"
    /\ input.table[1] # NoRow /\ input.table[1].status = "submitted"
    /\ input.table[1].manning_percentage = << 50 >>
    /\ input.table[2] # NoRow /\ input.table[2].status = "submitted"
    /\ output["updateReportStatus"].value[1].status = "approved"
    /\ output["updateReportStatus"].value[2].status = "submitted"

====
